---- MODULE Spec2Model ----
(***************************************************************************)
(* Payment controllers of craftmystore: the PhonePe, Cashfree and PayPal   *)
(* request handlers over the process-wide registry global.pendingPayments. *)
(* Every handler is an async function: it runs without interruption up to  *)
(* its next await, so one action below is one such segment of a handler,   *)
(* and segments of different requests interleave freely.                   *)
(***************************************************************************)
EXTENDS Integers, Sequences, FiniteSets, Bags, TLC

\* ---------------------------------------------------------------- bounds
MaxReq == 3        \* handler invocations (HTTP requests) in one behaviour
MaxInflight == 2   \* handler invocations suspended at an await at the same time

\* ------------------------------------------------------- sample input data
\* Transaction ids: what the CMS_<time>_<random> template, the PayPal order
\* id or a caller-supplied path/query/body parameter can be.
IdOrder == <<"CMS_1", "CMS_2">>
Ids == {IdOrder[i] : i \in 1..Len(IdOrder)}
NoId == ""              \* an absent (undefined / empty) id parameter
Undefined == "undefined"
NoTime == -1            \* a timestamp field that was never assigned

ValidPhone == <<"9", "8", "7", "6", "5", "4", "3", "2", "1", "0">>
ShortPhone == <<"9", "8", "7">>
AlphaPhone == <<"9", "8", "7", "6", "5", "x", "3", "2", "1", "0">>
NoPhone == <<>>
PayPalPhone == <<"N", "A">>   \* 'Not provided via PayPal'

Digits == {"0", "1", "2", "3", "4", "5", "6", "7", "8", "9"}

\* req.body of an initiation request.  An absent field and an empty/zero one
\* are the same to the handlers' !x tests, so "" and 0 stand for both.
GoodBody ==
    [amount |-> 500, customerName |-> "Asha", customerEmail |-> "asha@example.com",
     customerPhone |-> ValidPhone, ecommPlan |-> "starter", hostingPlan |-> "basic"]
NoBody ==
    [amount |-> 0, customerName |-> "", customerEmail |-> "", customerPhone |-> NoPhone,
     ecommPlan |-> "", hostingPlan |-> ""]
PhonePeBodies ==
    { GoodBody,
      [GoodBody EXCEPT !.amount = -5],
      [GoodBody EXCEPT !.amount = 0],
      [GoodBody EXCEPT !.customerPhone = NoPhone],
      [GoodBody EXCEPT !.customerPhone = ShortPhone],
      [GoodBody EXCEPT !.customerPhone = AlphaPhone],
      [GoodBody EXCEPT !.customerEmail = ""],
      [GoodBody EXCEPT !.customerName = ""] }
CashfreeBodies ==
    { GoodBody,
      [GoodBody EXCEPT !.amount = -5],
      [GoodBody EXCEPT !.amount = 0],
      [GoodBody EXCEPT !.customerEmail = ""],
      [GoodBody EXCEPT !.customerName = ""] }
PayPalBodies == CashfreeBodies

\* A provider payload: isNull says the response object (PhonePe) or its
\* .data (Cashfree, PayPal) is null/undefined; status is the state /
\* order_status / status field, Undefined when the field is absent.
Payload(isNull, status) == [isNull |-> isNull, status |-> status]
NoPayload == Payload(TRUE, "unset")
PhonePeStatusResponses ==
    { Payload(TRUE, Undefined), Payload(FALSE, Undefined), Payload(FALSE, "COMPLETED"),
      Payload(FALSE, "PENDING"), Payload(FALSE, "FAILED") }
CallbackStatuses == {"", "COMPLETED", "PENDING", "FAILED"}  \* req.query.status, "" absent
CashfreeOrderStatuses ==
    { Payload(TRUE, Undefined), Payload(FALSE, Undefined), Payload(FALSE, "PAID"),
      Payload(FALSE, "ACTIVE"), Payload(FALSE, "EXPIRED") }
\* req.body of a webhook delivery: isNull is a request without a parsed body
WebhookBodies == CashfreeOrderStatuses
\* data of the PayPal capture response
CaptureResponses ==
    { Payload(TRUE, Undefined), Payload(FALSE, "COMPLETED"), Payload(FALSE, "PENDING") }

\* client.pay() results
PayResponses ==
    { [isNull |-> TRUE, redirectUrl |-> "", orderId |-> Undefined],
      [isNull |-> FALSE, redirectUrl |-> "", orderId |-> "OMO1"],
      [isNull |-> FALSE, redirectUrl |-> "https://phonepe/pay", orderId |-> "OMO1"] }
\* cashfree.PGCreateOrder() results: response.data
CreateOrderResponses ==
    { [isNull |-> TRUE, order_id |-> Undefined, payment_session_id |-> ""],
      [isNull |-> FALSE, order_id |-> "CF1", payment_session_id |-> ""],
      [isNull |-> FALSE, order_id |-> "CF1", payment_session_id |-> "session_1"] }

\* ------------------------------------------------------------------ state
VARIABLES
    pendingPayments,  \* global.pendingPayments: id -> the record object, or NoObject
    inflight,         \* the bag of handler invocations suspended at an await
    arrived,          \* the number of requests that have arrived
    response,         \* the HTTP response sent by the step just taken
    mailCalls,        \* transporter.sendMail calls made, per transaction id
    archiveCalls,     \* Firestore set() calls made, per transaction id
    archiveDoc,       \* the document handed to Firestore by the step just taken
    logged            \* the side-effect failure the step just taken wrote to console.error

vars == <<pendingPayments, inflight, arrived, response, mailCalls, archiveCalls, archiveDoc,
          logged>>

\* new Date(): time is read as the number of requests that have arrived so far
now == arrived

\* a registry slot that holds no record (undefined)
NoObject ==
    [merchantTransactionId |-> NoId, amount |-> 0, customerName |-> Undefined,
     customerEmail |-> Undefined, customerPhone |-> NoPhone, ecommPlan |-> Undefined,
     hostingPlan |-> Undefined, status |-> Undefined, createdAt |-> NoTime,
     updatedAt |-> NoTime, verifiedAt |-> NoTime, phonepeOrderId |-> Undefined,
     redirectUrl |-> Undefined, cashfreeOrderId |-> Undefined,
     paymentSessionId |-> Undefined, paymentDetails |-> NoPayload,
     webhookData |-> NoPayload, paypalCaptureData |-> NoPayload]

\* A suspended handler: its position and locals (body is req.body, data the
\* provider's answer: statusResponse, response.data, captureResponse.data).  paymentInfo is a reference
\* to a record object: while that object is the one the registry holds under
\* id the handler reads it there (stale = FALSE); once the registry slot has
\* been given another object, the handler keeps the object as it was left.
Handler(kind, pc, id) ==
    [kind |-> kind, pc |-> pc, id |-> id, stale |-> FALSE, paymentInfo |-> NoObject,
     body |-> NoBody, data |-> NoPayload]

NoResponse == [kind |-> "none", http |-> 0, success |-> FALSE, status |-> Undefined,
               message |-> "", data |-> NoPayload]
Res(kind, http, success, status, message) ==
    [kind |-> kind, http |-> http, success |-> success, status |-> status,
     message |-> message, data |-> NoPayload]
\* a response body with the field  data: <the provider's answer>
WithData(r, data) == [r EXCEPT !.data = data]

\* console.error lines of the two side-effect helpers
NoLog == ""
MailError == "Error sending admin notification email:"
ArchiveError == "Error storing payment data in Firestore:"

NoDoc == [id |-> NoId, status |-> Undefined, paymentMethod |-> Undefined, amount |-> 0,
          customerName |-> Undefined, createdAt |-> NoTime, updatedAt |-> NoTime]

Init ==
    /\ pendingPayments = [i \in Ids |-> NoObject]
    /\ inflight = EmptyBag
    /\ arrived = 0
    /\ response = NoResponse
    /\ mailCalls = [i \in Ids |-> 0]
    /\ archiveCalls = [i \in Ids |-> 0]
    /\ archiveDoc = NoDoc
    /\ logged = NoLog

\* ---------------------------------------------------------------- helpers
\* global.pendingPayments[id] is truthy
Known(id) == id \in Ids /\ pendingPayments[id] # NoObject

\* The id a new transaction gets (CMS_<Date.now()>_<random>, or the id PayPal
\* gives its order): one the registry already holds, the code never checks
\* for that, or the next one in order that it does not hold.
GeneratedIds ==
    {IdOrder[i] : i \in {j \in 1..Len(IdOrder) :
        Known(IdOrder[j]) \/ \A k \in 1..(j - 1) : Known(IdOrder[k])}}

\* a test for digits only, of any number
TenDigitsOrFewer(phone) == \A i \in 1..Len(phone) : phone[i] \in Digits

\* /^\d{10}$/.test(customerPhone)
TenDigits(phone) == Len(phone) = 10 /\ \A i \in 1..Len(phone) : phone[i] \in Digits

\* the paymentInfo literal built by an initiation handler
NewPaymentInfo(id, body) ==
    [NoObject EXCEPT !.merchantTransactionId = id, !.amount = body.amount,
                     !.customerName = body.customerName,
                     !.customerEmail = body.customerEmail,
                     !.customerPhone = body.customerPhone,
                     !.ecommPlan = body.ecommPlan, !.hostingPlan = body.hostingPlan,
                     !.status = "PENDING", !.createdAt = now]

\* the object a handler's paymentInfo refers to
PaymentInfoOf(h) == IF h.stale THEN h.paymentInfo ELSE pendingPayments[h.id]

\* the suspended handlers, and the bag without / with one of them
Suspended == BagToSet(inflight)
Without(bag, h) == bag (-) SetToBag({h})
With(bag, h) == bag (+) SetToBag({h})

\* global.pendingPayments[id] = <a new object>: a handler that refers to the
\* object held so far keeps it
Detach(h, id) ==
    IF h.id = id /\ ~h.stale
       /\ h.kind \in {"verifyPhonePe", "verifyCashfree", "cashfreeWebhook", "capturePayPal"}
       /\ h.pc \notin {"token", "capture"}
    THEN [h EXCEPT !.stale = TRUE, !.paymentInfo = pendingPayments[id]]
    ELSE h
Detached(id) ==
    [g \in {Detach(h, id) : h \in Suspended} |->
        BagCardinality([h \in {k \in Suspended : Detach(k, id) = g} |-> inflight[h]])]

\* a request arrives and its handler runs to its first await
Suspend(h) ==
    /\ inflight' = With(inflight, h)
    /\ response' = NoResponse

\* a request arrives and its handler responds without awaiting
Reply(r) ==
    /\ inflight' = inflight
    /\ response' = r

\* the suspended handler h resumes and runs to its next await, as g
Await(h, g) ==
    /\ inflight' = With(Without(inflight, h), g)
    /\ response' = NoResponse

\* the suspended handler h resumes, sends r and returns
Respond(h, r) ==
    /\ inflight' = Without(inflight, h)
    /\ response' = r

Arrival ==
    /\ arrived < MaxReq
    /\ BagCardinality(inflight) < MaxInflight
    /\ arrived' = arrived + 1

At(h, kind, pc) == h \in Suspended /\ h.kind = kind /\ h.pc = pc

\* sendAdminNotificationEmail(paymentDetails) up to its await (lines 76-129):
\* the call of transporter.sendMail for the record's transaction
sendAdminNotificationEmail(paymentDetails) ==
    mailCalls' = [mailCalls EXCEPT ![paymentDetails.merchantTransactionId] = @ + 1]

\* an archive record that keeps the status of the stored record
storePaymentDataAsStored(paymentInfo, method) ==
    LET paymentData == [paymentInfo EXCEPT !.updatedAt = now]
    IN  /\ archiveCalls' = [archiveCalls EXCEPT ![paymentData.merchantTransactionId] = @ + 1]
        /\ archiveDoc' =
             [id |-> paymentData.merchantTransactionId,
              status |-> IF paymentData.status = Undefined THEN "UNKNOWN"
                         ELSE paymentData.status,
              paymentMethod |-> method,
              amount |-> paymentData.amount,
              customerName |-> paymentData.customerName,
              createdAt |-> IF paymentData.createdAt = NoTime THEN now
                            ELSE paymentData.createdAt,
              updatedAt |-> paymentData.updatedAt]

\* the firestorePaymentData literal and storePaymentData(...) up to its await
\* (lines 24-51): the call of db.collection('payments').doc(id).set(paymentDoc)
storePaymentData(paymentInfo, method) ==
    LET paymentData == [paymentInfo EXCEPT !.status = "COMPLETED", !.updatedAt = now]
    IN  /\ archiveCalls' = [archiveCalls EXCEPT ![paymentData.merchantTransactionId] = @ + 1]
        /\ archiveDoc' =
             [id |-> paymentData.merchantTransactionId,
              status |-> IF paymentData.status = Undefined THEN "UNKNOWN"
                         ELSE paymentData.status,
              paymentMethod |-> method,
              amount |-> paymentData.amount,
              customerName |-> paymentData.customerName,
              createdAt |-> IF paymentData.createdAt = NoTime THEN now
                            ELSE paymentData.createdAt,
              updatedAt |-> paymentData.updatedAt]

\* sendAdminNotificationEmail from its await on (lines 123-136): sendMail
\* resolved, or it rejected and the catch block logged it and returned false
sendMailSettles ==
    \E sent \in BOOLEAN : logged' = IF sent THEN NoLog ELSE MailError

\* storePaymentData from its await on (lines 51-58): set() resolved, or it
\* rejected and the catch block logged it and returned null
firestoreSetSettles ==
    /\ \E stored \in BOOLEAN : logged' = IF stored THEN NoLog ELSE ArchiveError
    /\ archiveDoc' = NoDoc
    /\ UNCHANGED <<archiveCalls, mailCalls>>

\* the step takes no part in a Firestore write / in any side effect
NoArchive == archiveDoc' = NoDoc /\ logged' = NoLog /\ UNCHANGED archiveCalls
NoSideEffects == NoArchive /\ UNCHANGED mailCalls

\* ------------------------------------------------ initiatePhonePePayment
\* lines 153-235: validation, the PENDING record, up to await client.pay
initiatePhonePePayment ==
    /\ Arrival
    /\ \E body \in PhonePeBodies :
        IF body.amount = 0 \/ body.customerPhone = NoPhone
           \/ body.customerEmail = "" \/ body.customerName = ""
        THEN /\ Reply(Res("initiatePhonePe", 400, FALSE, Undefined, "Missing required fields"))
             /\ UNCHANGED pendingPayments
        ELSE IF ~TenDigits(body.customerPhone)
        THEN /\ Reply(Res("initiatePhonePe", 400, FALSE, Undefined, "Phone number must be exactly 10 digits"))
             /\ UNCHANGED pendingPayments
        ELSE IF body.amount <= 0
        THEN /\ Reply(Res("initiatePhonePe", 400, FALSE, Undefined, "Invalid amount"))
             /\ UNCHANGED pendingPayments
        ELSE \E merchantTransactionId \in GeneratedIds :
             /\ pendingPayments' = [pendingPayments EXCEPT ![merchantTransactionId] =
                                        NewPaymentInfo(merchantTransactionId, body)]
             /\ inflight' = With(Detached(merchantTransactionId),
                                 Handler("initiatePhonePe", "pay", merchantTransactionId))
             /\ response' = NoResponse
    /\ NoSideEffects

\* lines 235-259: client.pay returned
initiatePhonePePayReturns(h) ==
    /\ At(h, "initiatePhonePe", "pay")
    /\ \E r \in PayResponses :
        IF ~r.isNull /\ r.redirectUrl # ""
        THEN /\ pendingPayments' = [pendingPayments EXCEPT ![h.id] =
                    [@ EXCEPT !.phonepeOrderId = r.orderId, !.redirectUrl = r.redirectUrl,
                              !.status = "INITIATED"]]
             /\ Respond(h, Res("initiatePhonePe", 200, TRUE, Undefined, "Payment initiated successfully"))
        ELSE /\ UNCHANGED pendingPayments
             /\ Respond(h, Res("initiatePhonePe", 400, FALSE, Undefined, "Payment initiation failed - missing redirect URL"))
    /\ NoSideEffects
    /\ UNCHANGED arrived

\* lines 261-269: client.pay threw
initiatePhonePePayThrows(h) ==
    /\ At(h, "initiatePhonePe", "pay")
    /\ Respond(h, Res("initiatePhonePe", 500, FALSE, Undefined, "provider error"))
    /\ NoSideEffects
    /\ UNCHANGED <<pendingPayments, arrived>>

\* a callback that refreshes updatedAt on every stored record
phonePeCallbackWithTouchesAll(merchantTransactionId, status) ==
    /\ Arrival
    /\ IF merchantTransactionId # NoId /\ Known(merchantTransactionId)
       THEN pendingPayments' =
                [id \in Ids |->
                    IF id = merchantTransactionId
                    THEN [pendingPayments[id] EXCEPT
                              !.status = IF status # "" THEN status ELSE "COMPLETED",
                              !.updatedAt = now]
                    ELSE IF Known(id) THEN [pendingPayments[id] EXCEPT !.updatedAt = now]
                    ELSE pendingPayments[id]]
       ELSE UNCHANGED pendingPayments
    /\ Reply(Res("phonePeCallback", 200, TRUE, Undefined, "Callback processed"))
    /\ NoSideEffects

\* -------------------------------------------------------- phonePeCallback
\* lines 273-294
phonePeCallbackWith(merchantTransactionId, status) ==
    /\ Arrival
    /\ IF merchantTransactionId # NoId /\ Known(merchantTransactionId)
       THEN pendingPayments' = [pendingPayments EXCEPT ![merchantTransactionId] =
                [@ EXCEPT !.status = IF status # "" THEN status ELSE "COMPLETED",
                          !.updatedAt = now]]
       ELSE UNCHANGED pendingPayments
    /\ Reply(Res("phonePeCallback", 200, TRUE, Undefined, "Callback processed"))
    /\ NoSideEffects

\* the callback for any req.query
phonePeCallback ==
    \E merchantTransactionId \in Ids \cup {NoId}, status \in CallbackStatuses :
        phonePeCallbackWith(merchantTransactionId, status)

\* --------------------------------------------------- verifyPhonePePayment
\* lines 297-334: the id and registry checks, up to await client.getOrderStatus
verifyPhonePePayment ==
    /\ Arrival
    /\ \E merchantTransactionId \in Ids \cup {NoId} :
        IF merchantTransactionId = NoId
        THEN Reply(Res("verifyPhonePe", 400, FALSE, Undefined, "Missing transaction ID"))
        ELSE IF ~Known(merchantTransactionId)
        THEN Reply(Res("verifyPhonePe", 404, FALSE, Undefined, "Transaction not found"))
        ELSE Suspend(Handler("verifyPhonePe", "getOrderStatus", merchantTransactionId))
    /\ NoSideEffects
    /\ UNCHANGED pendingPayments

\* lines 334-357 and 385-411: getOrderStatus returned; the registry update and
\* the branch on statusResponse.state, up to the await of the notification
verifyPhonePeStatusReturns(h) ==
    /\ At(h, "verifyPhonePe", "getOrderStatus")
    /\ \E statusResponse \in PhonePeStatusResponses :
        LET state == IF statusResponse.isNull THEN Undefined ELSE statusResponse.status
        IN  /\ pendingPayments' = [pendingPayments EXCEPT ![h.id] =
                   [@ EXCEPT !.status = IF state # Undefined THEN state ELSE "UNKNOWN",
                             !.verifiedAt = now,
                             !.paymentDetails = statusResponse]]
            /\ IF state = "COMPLETED"
               THEN /\ sendAdminNotificationEmail(PaymentInfoOf(h))
                    /\ Await(h, [h EXCEPT !.pc = "sendMail", !.data = statusResponse])
               ELSE /\ UNCHANGED mailCalls
                    /\ IF state = "PENDING"
                       THEN Respond(h, WithData(Res("verifyPhonePe", 200, FALSE, "PENDING", "Payment is still processing"), statusResponse))
                       ELSE IF statusResponse.isNull
                       THEN \* statusResponse.paymentDetails of null: TypeError, caught at 413
                            Respond(h, Res("verifyPhonePe", 500, FALSE, "FAILED", "server error: TypeError"))
                       ELSE Respond(h, WithData(Res("verifyPhonePe", 200, FALSE, "FAILED", "Payment failed or was cancelled"), statusResponse))
    /\ NoArchive
    /\ UNCHANGED arrived

\* a catch block that records the failed query as a failed payment
verifyPhonePeStatusThrowsMarksFailed(h) ==
    /\ At(h, "verifyPhonePe", "getOrderStatus")
    /\ pendingPayments' = [pendingPayments EXCEPT ![h.id] =
           [@ EXCEPT !.status = "FAILED", !.verifiedAt = now]]
    /\ Respond(h, Res("verifyPhonePe", 500, FALSE, "FAILED", "server error: provider error"))
    /\ NoSideEffects
    /\ UNCHANGED arrived

\* lines 413-420: getOrderStatus threw
verifyPhonePeStatusThrows(h) ==
    /\ At(h, "verifyPhonePe", "getOrderStatus")
    /\ Respond(h, Res("verifyPhonePe", 500, FALSE, "FAILED", "server error: provider error"))
    /\ NoSideEffects
    /\ UNCHANGED <<pendingPayments, arrived>>

\* a handler that archives only after a notification that was sent
verifyPhonePeMailSettlesSkipsArchive(h) ==
    /\ At(h, "verifyPhonePe", "sendMail")
    /\ \E sent \in BOOLEAN :
        IF sent
        THEN /\ logged' = NoLog
             /\ storePaymentData(PaymentInfoOf(h), "phonepe")
             /\ Await(h, [h EXCEPT !.pc = "firestoreSet"])
        ELSE /\ logged' = MailError
             /\ archiveDoc' = NoDoc
             /\ UNCHANGED archiveCalls
             /\ Respond(h, WithData(Res("verifyPhonePe", 200, TRUE, "SUCCESS", "Payment successful"), h.data))
    /\ UNCHANGED <<pendingPayments, arrived, mailCalls>>

\* lines 357-372: the notification settled (sent, or failed and logged); the
\* Firestore document is built and its write started
verifyPhonePeMailSettles(h) ==
    /\ At(h, "verifyPhonePe", "sendMail")
    /\ sendMailSettles
    /\ storePaymentData(PaymentInfoOf(h), "phonepe")
    /\ Await(h, [h EXCEPT !.pc = "firestoreSet"])
    /\ UNCHANGED <<pendingPayments, arrived, mailCalls>>

\* a handler that reports a completed payment as still processing
verifyPhonePeArchiveSettlesAsPending(h) ==
    /\ At(h, "verifyPhonePe", "firestoreSet")
    /\ Respond(h, WithData(Res("verifyPhonePe", 200, FALSE, "PENDING", "Payment is still processing"), h.data))
    /\ firestoreSetSettles
    /\ UNCHANGED <<pendingPayments, arrived>>

\* lines 372-384: the Firestore write settled (stored, or failed and logged)
verifyPhonePeArchiveSettles(h) ==
    /\ At(h, "verifyPhonePe", "firestoreSet")
    /\ Respond(h, WithData(Res("verifyPhonePe", 200, TRUE, "SUCCESS", "Payment successful"), h.data))
    /\ firestoreSetSettles
    /\ UNCHANGED <<pendingPayments, arrived>>

\* ------------------------------------------------ initiateCashfreePayment
\* lines 424-482: validation, the PENDING record, up to await PGCreateOrder
initiateCashfreePayment ==
    /\ Arrival
    /\ \E body \in CashfreeBodies :
        IF body.amount = 0 \/ body.customerEmail = "" \/ body.customerName = ""
        THEN /\ Reply(Res("initiateCashfree", 400, FALSE, Undefined, "Missing required fields"))
             /\ UNCHANGED pendingPayments
        ELSE \E merchantTransactionId \in GeneratedIds :
             /\ pendingPayments' = [pendingPayments EXCEPT ![merchantTransactionId] =
                                        NewPaymentInfo(merchantTransactionId, body)]
             /\ inflight' = With(Detached(merchantTransactionId),
                                 Handler("initiateCashfree", "PGCreateOrder",
                                         merchantTransactionId))
             /\ response' = NoResponse
    /\ NoSideEffects

\* lines 482-504: PGCreateOrder returned
initiateCashfreeOrderReturns(h) ==
    /\ At(h, "initiateCashfree", "PGCreateOrder")
    /\ \E data \in CreateOrderResponses :
        IF ~data.isNull /\ data.payment_session_id # ""
        THEN /\ pendingPayments' = [pendingPayments EXCEPT ![h.id] =
                    [@ EXCEPT !.cashfreeOrderId = data.order_id,
                              !.paymentSessionId = data.payment_session_id,
                              !.status = "INITIATED"]]
             /\ Respond(h, Res("initiateCashfree", 200, TRUE, Undefined, "initiated"))
        ELSE /\ UNCHANGED pendingPayments
             /\ Respond(h, Res("initiateCashfree", 400, FALSE, Undefined, "Payment initiation failed"))
    /\ NoSideEffects
    /\ UNCHANGED arrived

\* a catch block that drops the record of the failed initiation
initiateCashfreeOrderThrowsDropsRecord(h) ==
    /\ At(h, "initiateCashfree", "PGCreateOrder")
    /\ pendingPayments' = [pendingPayments EXCEPT ![h.id] = NoObject]
    /\ Respond(h, Res("initiateCashfree", 500, FALSE, Undefined, "provider error"))
    /\ NoSideEffects
    /\ UNCHANGED arrived

\* lines 505-511: PGCreateOrder threw
initiateCashfreeOrderThrows(h) ==
    /\ At(h, "initiateCashfree", "PGCreateOrder")
    /\ Respond(h, Res("initiateCashfree", 500, FALSE, Undefined, "provider error"))
    /\ NoSideEffects
    /\ UNCHANGED <<pendingPayments, arrived>>

\* -------------------------------------------------- verifyCashfreePayment
\* a handler that queries the provider without looking at the registry
verifyCashfreePaymentUnchecked ==
    /\ Arrival
    /\ \E merchantTransactionId \in Ids \cup {NoId} :
        IF merchantTransactionId = NoId
        THEN Reply(Res("verifyCashfree", 400, FALSE, Undefined, "Missing transaction ID"))
        ELSE Suspend(Handler("verifyCashfree", "PGFetchOrder", merchantTransactionId))
    /\ NoSideEffects
    /\ UNCHANGED pendingPayments

\* lines 515-542: the id and registry checks, up to await PGFetchOrder
verifyCashfreePayment ==
    /\ Arrival
    /\ \E merchantTransactionId \in Ids \cup {NoId} :
        IF merchantTransactionId = NoId
        THEN Reply(Res("verifyCashfree", 400, FALSE, Undefined, "Missing transaction ID"))
        ELSE IF ~Known(merchantTransactionId)
        THEN Reply(Res("verifyCashfree", 404, FALSE, Undefined, "Transaction not found"))
        ELSE Suspend(Handler("verifyCashfree", "PGFetchOrder", merchantTransactionId))
    /\ NoSideEffects
    /\ UNCHANGED pendingPayments

\* lines 542-557 and 585-602: PGFetchOrder returned; the registry update and
\* the branch on order_status, up to the await of the notification
verifyCashfreeOrderReturns(h) ==
    /\ At(h, "verifyCashfree", "PGFetchOrder")
    /\ \E data \in CashfreeOrderStatuses :
        IF data.isNull
        THEN \* response.data.order_status of undefined: TypeError, caught at 603
             /\ Respond(h, Res("verifyCashfree", 500, FALSE, "FAILED", "server error: TypeError"))
             /\ UNCHANGED <<pendingPayments, mailCalls>>
        ELSE LET orderStatus == data.status
             IN  /\ pendingPayments' = [pendingPayments EXCEPT ![h.id] =
                        [@ EXCEPT !.status = orderStatus, !.verifiedAt = now,
                                  !.paymentDetails = data]]
                 /\ IF orderStatus = "PAID"
                    THEN /\ sendAdminNotificationEmail(PaymentInfoOf(h))
                         /\ Await(h, [h EXCEPT !.pc = "sendMail", !.data = data])
                    ELSE /\ UNCHANGED mailCalls
                         /\ IF orderStatus = "ACTIVE"
                            THEN Respond(h, WithData(Res("verifyCashfree", 200, FALSE, "PENDING", "Payment is still processing"), data))
                            ELSE Respond(h, WithData(Res("verifyCashfree", 200, FALSE, "FAILED", "Payment failed or was cancelled"), data))
    /\ NoArchive
    /\ UNCHANGED arrived

\* a catch block that logs the failed query and sends nothing
verifyCashfreeOrderThrowsSilently(h) ==
    /\ At(h, "verifyCashfree", "PGFetchOrder")
    /\ inflight' = Without(inflight, h)
    /\ response' = NoResponse
    /\ NoSideEffects
    /\ UNCHANGED <<pendingPayments, arrived>>

\* lines 603-610: PGFetchOrder threw
verifyCashfreeOrderThrows(h) ==
    /\ At(h, "verifyCashfree", "PGFetchOrder")
    /\ Respond(h, Res("verifyCashfree", 500, FALSE, "FAILED", "server error: provider error"))
    /\ NoSideEffects
    /\ UNCHANGED <<pendingPayments, arrived>>

\* a handler to whose catch block a failed notification propagates
verifyCashfreeMailSettlesRethrows(h) ==
    /\ At(h, "verifyCashfree", "sendMail")
    /\ \E sent \in BOOLEAN :
        IF sent
        THEN /\ logged' = NoLog
             /\ storePaymentData(PaymentInfoOf(h), "cashfree")
             /\ Await(h, [h EXCEPT !.pc = "firestoreSet"])
        ELSE /\ logged' = MailError
             /\ archiveDoc' = NoDoc
             /\ UNCHANGED archiveCalls
             /\ Respond(h, Res("verifyCashfree", 500, FALSE, "FAILED", "server error: notification"))
    /\ UNCHANGED <<pendingPayments, arrived, mailCalls>>

\* lines 557-572: the notification settled; the Firestore write is started
verifyCashfreeMailSettles(h) ==
    /\ At(h, "verifyCashfree", "sendMail")
    /\ sendMailSettles
    /\ storePaymentData(PaymentInfoOf(h), "cashfree")
    /\ Await(h, [h EXCEPT !.pc = "firestoreSet"])
    /\ UNCHANGED <<pendingPayments, arrived, mailCalls>>

\* lines 572-584: the Firestore write settled
verifyCashfreeArchiveSettles(h) ==
    /\ At(h, "verifyCashfree", "firestoreSet")
    /\ Respond(h, WithData(Res("verifyCashfree", 200, TRUE, "SUCCESS", "Payment successful"), h.data))
    /\ firestoreSetSettles
    /\ UNCHANGED <<pendingPayments, arrived>>

\* -------------------------------------------------------- cashfreeWebhook
\* a webhook handler that dispatches on every status update of a known order
cashfreeWebhookDispatchesAlways ==
    /\ Arrival
    /\ \E orderId \in Ids \cup {NoId}, eventData \in WebhookBodies :
        IF eventData.isNull
        THEN /\ Reply(Res("cashfreeWebhook", 500, FALSE, Undefined, "Webhook failed"))
             /\ UNCHANGED <<pendingPayments, mailCalls>>
        ELSE LET orderStatus == eventData.status
             IN  IF orderId # NoId /\ Known(orderId)
                 THEN /\ pendingPayments' = [pendingPayments EXCEPT ![orderId] =
                             [@ EXCEPT !.status = IF orderStatus = "PAID" THEN "COMPLETED"
                                                  ELSE orderStatus,
                                       !.updatedAt = now,
                                       !.webhookData = eventData]]
                      /\ sendAdminNotificationEmail(pendingPayments[orderId])
                      /\ Suspend([Handler("cashfreeWebhook", "sendMail", orderId)
                                     EXCEPT !.data = eventData])
                 ELSE /\ UNCHANGED <<pendingPayments, mailCalls>>
                      /\ Reply(Res("cashfreeWebhook", 200, TRUE, Undefined, "Webhook processed"))
    /\ NoArchive

\* lines 614-637 and 658-664: the registry update, up to the await of the
\* notification (order_status PAID) or the response
cashfreeWebhook ==
    /\ Arrival
    /\ \E orderId \in Ids \cup {NoId}, eventData \in WebhookBodies :
        IF eventData.isNull
        THEN \* eventData.data of undefined: TypeError, caught at 661
             /\ Reply(Res("cashfreeWebhook", 500, FALSE, Undefined, "Webhook failed"))
             /\ UNCHANGED <<pendingPayments, mailCalls>>
        ELSE LET orderStatus == eventData.status
             IN  IF orderId # NoId /\ Known(orderId)
                 THEN /\ pendingPayments' = [pendingPayments EXCEPT ![orderId] =
                             [@ EXCEPT !.status = IF orderStatus = "PAID" THEN "COMPLETED"
                                                  ELSE orderStatus,
                                       !.updatedAt = now,
                                       !.webhookData = eventData]]
                      /\ IF orderStatus = "PAID"
                         THEN /\ sendAdminNotificationEmail(pendingPayments[orderId])
                              /\ Suspend([Handler("cashfreeWebhook", "sendMail", orderId)
                                             EXCEPT !.data = eventData])
                         ELSE /\ UNCHANGED mailCalls
                              /\ Reply(Res("cashfreeWebhook", 200, TRUE, Undefined, "Webhook processed"))
                 ELSE /\ UNCHANGED <<pendingPayments, mailCalls>>
                      /\ Reply(Res("cashfreeWebhook", 200, TRUE, Undefined, "Webhook processed"))
    /\ NoArchive

\* a webhook that removes the record once the notification has settled
cashfreeWebhookMailSettlesDropsRecord(h) ==
    /\ At(h, "cashfreeWebhook", "sendMail")
    /\ sendMailSettles
    /\ storePaymentData(PaymentInfoOf(h), "cashfree")
    /\ pendingPayments' = [pendingPayments EXCEPT ![h.id] = NoObject]
    /\ Await(h, [h EXCEPT !.pc = "firestoreSet", !.stale = TRUE,
                          !.paymentInfo = PaymentInfoOf(h)])
    /\ UNCHANGED <<arrived, mailCalls>>

\* lines 637-652: the notification settled; the Firestore write is started
cashfreeWebhookMailSettles(h) ==
    /\ At(h, "cashfreeWebhook", "sendMail")
    /\ sendMailSettles
    /\ storePaymentData(PaymentInfoOf(h), "cashfree")
    /\ Await(h, [h EXCEPT !.pc = "firestoreSet"])
    /\ UNCHANGED <<pendingPayments, arrived, mailCalls>>

\* lines 652-660: the Firestore write settled
cashfreeWebhookArchiveSettles(h) ==
    /\ At(h, "cashfreeWebhook", "firestoreSet")
    /\ Respond(h, Res("cashfreeWebhook", 200, TRUE, Undefined, "Webhook processed"))
    /\ firestoreSetSettles
    /\ UNCHANGED <<pendingPayments, arrived>>

\* -------------------------------------------------- initiatePayPalPayment
\* part_001 lines 410-431: validation, up to the await of the token request
initiatePayPalPayment ==
    /\ Arrival
    /\ \E body \in PayPalBodies :
        IF body.amount = 0 \/ body.customerEmail = "" \/ body.customerName = ""
        THEN Reply(Res("initiatePayPal", 400, FALSE, Undefined, "Missing required fields"))
        ELSE Suspend([Handler("initiatePayPal", "token", NoId) EXCEPT !.body = body])
    /\ NoSideEffects
    /\ UNCHANGED pendingPayments

\* part_001 lines 433-465: the token arrived, up to the await of the order request
initiatePayPalTokenReturns(h) ==
    /\ At(h, "initiatePayPal", "token")
    /\ Await(h, [h EXCEPT !.pc = "createOrder"])
    /\ NoSideEffects
    /\ UNCHANGED <<pendingPayments, arrived>>

\* part_001 lines 467-490: the order was created; the record is stored under
\* the PayPal order id.  Without an approve link, find(...).href is a TypeError.
initiatePayPalOrderReturns(h) ==
    /\ At(h, "initiatePayPal", "createOrder")
    /\ \E merchantTransactionId \in GeneratedIds, approve \in BOOLEAN :
        IF ~approve
        THEN /\ Respond(h, Res("initiatePayPal", 500, FALSE, Undefined, "PayPal payment failed: TypeError"))
             /\ UNCHANGED pendingPayments
        ELSE /\ pendingPayments' = [pendingPayments EXCEPT ![merchantTransactionId] =
                    NewPaymentInfo(merchantTransactionId, h.body)]
             /\ inflight' = Without(Detached(merchantTransactionId), h)
             /\ response' = Res("initiatePayPal", 200, TRUE, Undefined, "redirect")
    /\ NoSideEffects
    /\ UNCHANGED arrived

\* part_001 lines 492-498: the token or the order request threw
initiatePayPalThrows(h) ==
    /\ h \in Suspended /\ h.kind = "initiatePayPal"
    /\ Respond(h, Res("initiatePayPal", 500, FALSE, Undefined, "PayPal payment failed: provider error"))
    /\ NoSideEffects
    /\ UNCHANGED <<pendingPayments, arrived>>

\* --------------------------------------------------- capturePayPalPayment
\* part_001 lines 502-525: the orderID check, up to the await of the token request
capturePayPalPayment ==
    /\ Arrival
    /\ \E orderID \in Ids \cup {NoId} :
        IF orderID = NoId
        THEN Reply(Res("capturePayPal", 400, FALSE, Undefined, "Missing order ID"))
        ELSE Suspend(Handler("capturePayPal", "token", orderID))
    /\ NoSideEffects
    /\ UNCHANGED pendingPayments

\* part_001 lines 527-539: the token arrived, up to the await of the capture request
capturePayPalTokenReturns(h) ==
    /\ At(h, "capturePayPal", "token")
    /\ Await(h, [h EXCEPT !.pc = "capture"])
    /\ NoSideEffects
    /\ UNCHANGED <<pendingPayments, arrived>>

\* part_001 lines 549-558: the record made up from the capture response
PayPalPaymentInfo(orderID) ==
    [NoObject EXCEPT !.merchantTransactionId = orderID,
                     !.customerName = "PayPal Customer",
                     !.customerEmail = "payer@example.com",
                     !.customerPhone = PayPalPhone,
                     !.amount = 500,
                     !.ecommPlan = "Standard", !.hostingPlan = "Standard"]

\* a capture that always rebuilds the record from the PayPal response
capturePayPalCaptureReturnsRebuilds(h) ==
    /\ At(h, "capturePayPal", "capture")
    /\ \E data \in CaptureResponses :
        LET orderID == h.id
            paymentInfo == PayPalPaymentInfo(orderID)
        IN  IF data.isNull
            THEN /\ Respond(h, Res("capturePayPal", 500, FALSE, Undefined, "Capture failed: TypeError"))
                 /\ UNCHANGED <<pendingPayments, mailCalls>>
            ELSE /\ pendingPayments' = [pendingPayments EXCEPT ![orderID] =
                        [paymentInfo EXCEPT !.status = "COMPLETED",
                                            !.paypalCaptureData = data,
                                            !.updatedAt = now]]
                 /\ sendAdminNotificationEmail(paymentInfo)
                 /\ Await(h, [h EXCEPT !.pc = "sendMail", !.data = data])
    /\ NoArchive
    /\ UNCHANGED arrived

\* part_001 lines 541-571: the capture request returned; the record is looked
\* up or made up, marked COMPLETED and stored, up to the await of the notification
capturePayPalCaptureReturns(h) ==
    /\ At(h, "capturePayPal", "capture")
    /\ \E data \in CaptureResponses :
        LET orderID == h.id
            paymentInfo == IF Known(orderID) THEN pendingPayments[orderID]
                           ELSE PayPalPaymentInfo(orderID)
        IN  IF ~Known(orderID) /\ data.isNull
            THEN \* captureData.payer of undefined: TypeError, caught at 598
                 /\ Respond(h, Res("capturePayPal", 500, FALSE, Undefined, "Capture failed: TypeError"))
                 /\ UNCHANGED <<pendingPayments, mailCalls>>
            ELSE /\ pendingPayments' = [pendingPayments EXCEPT ![orderID] =
                        [paymentInfo EXCEPT !.status = "COMPLETED",
                                            !.paypalCaptureData = data,
                                            !.updatedAt = now]]
                 /\ sendAdminNotificationEmail(paymentInfo)
                 /\ Await(h, [h EXCEPT !.pc = "sendMail", !.data = data])
    /\ NoArchive
    /\ UNCHANGED arrived

\* a catch block that records the failed capture as a failed payment
capturePayPalThrowsMarksFailed(h) ==
    /\ h \in Suspended /\ h.kind = "capturePayPal" /\ h.pc \in {"token", "capture"}
    /\ pendingPayments' = [pendingPayments EXCEPT ![h.id] =
           IF Known(h.id) THEN [@ EXCEPT !.status = "FAILED", !.updatedAt = now] ELSE @]
    /\ Respond(h, Res("capturePayPal", 500, FALSE, Undefined, "Capture failed: provider error"))
    /\ NoSideEffects
    /\ UNCHANGED arrived

\* part_001 lines 598-604: the token or the capture request threw
capturePayPalThrows(h) ==
    /\ h \in Suspended /\ h.kind = "capturePayPal" /\ h.pc \in {"token", "capture"}
    /\ Respond(h, Res("capturePayPal", 500, FALSE, Undefined, "Capture failed: provider error"))
    /\ NoSideEffects
    /\ UNCHANGED <<pendingPayments, arrived>>

\* part_001 lines 571-586: the notification settled; the Firestore write is started
capturePayPalMailSettles(h) ==
    /\ At(h, "capturePayPal", "sendMail")
    /\ sendMailSettles
    /\ storePaymentData(PaymentInfoOf(h), "paypal")
    /\ Await(h, [h EXCEPT !.pc = "firestoreSet"])
    /\ UNCHANGED <<pendingPayments, arrived, mailCalls>>

\* part_001 lines 586-596: the Firestore write settled
capturePayPalArchiveSettles(h) ==
    /\ At(h, "capturePayPal", "firestoreSet")
    /\ Respond(h, WithData(Res("capturePayPal", 200, TRUE, Undefined, "captured"), h.data))
    /\ firestoreSetSettles
    /\ UNCHANGED <<pendingPayments, arrived>>


\* ----------------------------------------------------- the claims' terms
\* the unified lifecycle state a stored status value stands for
Unified(status) ==
    CASE status \in {"COMPLETED", "PAID"} -> "SUCCESS"
      [] status = "PENDING" -> "PENDING"
      [] status = "INITIATED" -> "INITIATED"
      [] status = "ACTIVE" -> "PENDING_VERIFICATION"
      [] OTHER -> "FAILED"

Terminal(status) == Unified(status) \in {"SUCCESS", "FAILED"}

\* the provider handle a record carries
HasHandle(rec) ==
    \/ rec.redirectUrl \notin {Undefined, ""}
    \/ rec.paymentSessionId \notin {Undefined, ""}

\* the step is one that writes a new record under an id on initiation
InitiationWrites ==
    \/ initiatePhonePePayment
    \/ initiateCashfreePayment
    \/ \E h \in Suspended : initiatePayPalOrderReturns(h)

\* the step applies a status signal: a callback, a webhook, the provider's
\* answer to a verification, or a PayPal capture
SignalStep ==
    \/ phonePeCallback
    \/ cashfreeWebhook
    \/ \E h \in Suspended : verifyPhonePeStatusReturns(h)
    \/ \E h \in Suspended : verifyCashfreeOrderReturns(h)
    \/ \E h \in Suspended : capturePayPalCaptureReturns(h)

\* the step sent the response of a verification whose provider query threw
VerifyProviderError(r) ==
    /\ r.kind \in {"verifyPhonePe", "verifyCashfree"}
    /\ r.message = "server error: provider error"

\* C1: for every transaction id the side-effect dispatch is performed at most
\* once when signals are delivered one after another: a notification call made
\* while no other request for that id is in progress is the first for the id.
C1_DispatchAtMostOnce ==
    [][\A id \in Ids :
          /\ mailCalls'[id] > mailCalls[id]
          /\ BagCardinality([h \in {k \in BagToSet(inflight') : k.id = id}
                                |-> inflight'[h]]) = 1
          => mailCalls[id] = 0]_vars

\* C2: two Cashfree webhook deliveries with order_status PAID for the same
\* order never both decide to dispatch: at most one webhook handler per order
\* is between its notification call and its response.
C2_WebhookRaceOneDispatch ==
    \A id \in Ids :
        BagCardinality([h \in {k \in Suspended : k.kind = "cashfreeWebhook" /\ k.id = id}
                           |-> inflight[h]]) <= 1

\* C3: a transaction whose stored state is the success state has had its side
\* effects dispatched, and nothing is dispatched for an id without a record.
C3_DispatchIffSuccess ==
    \A id \in Ids :
        /\ Known(id) /\ Unified(pendingPayments[id].status) = "SUCCESS"
              => mailCalls[id] >= 1
        /\ mailCalls[id] >= 1 => Known(id)

\* C4: once a record's stored state is terminal (success or failed), no later
\* signal (callback, verification, webhook, capture) moves it to another state.
C4_TerminalIsMonotonic ==
    [][\A id \in Ids :
          Known(id) /\ Terminal(pendingPayments[id].status) /\ SignalStep
              => Unified(pendingPayments'[id].status) = Unified(pendingPayments[id].status)]_vars

\* C5: a signal, verification or capture for an id the registry does not hold
\* adds no record under that id and dispatches nothing for it.
C5_UnknownIdCreatesNothing ==
    [][\A id \in Ids :
          ~Known(id) /\ ~InitiationWrites
              => /\ pendingPayments'[id] = NoObject
                 /\ mailCalls'[id] = mailCalls[id]
                 /\ archiveCalls'[id] = archiveCalls[id]]_vars

\* C6: when the provider call of an initiation fails (throws, or returns no
\* redirect URL / payment session id), the registry holds no record of that
\* transaction once the request has responded.
C6_FailedInitiationLeavesNoRecord ==
    [][\A h \in Suspended :
          /\ h.kind \in {"initiatePhonePe", "initiateCashfree"}
          /\ response'.kind = h.kind
          /\ response'.http \in {400, 500}
          /\ inflight' = Without(inflight, h)
          => pendingPayments'[h.id] = NoObject]_vars

\* C7: when a valid initiation has responded with success, the step leaves a
\* record in state INITIATED with a non-empty provider handle, for each of the
\* three providers.
C7_InitiationLeavesInitiatedRecord ==
    response.kind \in {"initiatePhonePe", "initiateCashfree", "initiatePayPal"}
    /\ response.success
        => \E id \in Ids : /\ Known(id)
                           /\ pendingPayments[id].status = "INITIATED"
                           /\ HasHandle(pendingPayments[id])

\* C8: an initiation with amount <= 0 is rejected before any provider call and
\* before any record is written: no record and no initiation awaiting its
\* provider carries such an amount.
C8_NonPositiveAmountRejected ==
    /\ \A id \in Ids : Known(id) => pendingPayments[id].amount > 0
    /\ \A h \in Suspended : h.kind = "initiatePayPal" => h.body.amount > 0

\* C9: when the provider status query of a verification throws, the step that
\* reports it leaves every stored record as it was (state, timestamps,
\* payload) and makes no notification or archive call.
C9_ProviderErrorLeavesStore ==
    [][VerifyProviderError(response')
          => /\ pendingPayments' = pendingPayments
             /\ mailCalls' = mailCalls
             /\ archiveCalls' = archiveCalls]_vars

\* C9 witness: a verification of a known, initiated transaction has just
\* reported that its provider query threw.
C9_Witness ==
    /\ VerifyProviderError(response)
    /\ \E id \in Ids : Known(id) /\ pendingPayments[id].status = "INITIATED"

\* C10: the response of a verification whose provider query threw never
\* carries the status value FAILED used for a failed payment.
C10_ProviderErrorIsNotFailed ==
    VerifyProviderError(response) => response.status # "FAILED"

\* the outcome the mapping table gives a PhonePe state / a Cashfree order_status
PhonePeOutcome(state) ==
    CASE state = "COMPLETED" -> "SUCCESS"
      [] state = "PENDING" -> "PENDING"
      [] OTHER -> "FAILED"
CashfreeOutcome(order_status) ==
    CASE order_status = "PAID" -> "SUCCESS"
      [] order_status = "ACTIVE" -> "PENDING"
      [] OTHER -> "FAILED"

\* the response of a verification whose provider query returned an answer
\* that the handler could read
VerifyAnswered(r) ==
    /\ r.kind \in {"verifyPhonePe", "verifyCashfree"}
    /\ r.http = 200

\* C11: the outcome in the response of a verification of a known transaction
\* whose provider query returned follows the mapping table: PhonePe COMPLETED
\* gives SUCCESS, PENDING gives PENDING, any other state FAILED; Cashfree PAID
\* gives SUCCESS, ACTIVE gives PENDING, any other order_status FAILED.
C11_VerifyOutcomeFollowsTable ==
    /\ response.kind = "verifyPhonePe" /\ VerifyAnswered(response)
          => /\ response.status = PhonePeOutcome(response.data.status)
             /\ response.success = (response.status = "SUCCESS")
    /\ response.kind = "verifyCashfree" /\ VerifyAnswered(response)
          => /\ response.status = CashfreeOutcome(response.data.status)
             /\ response.success = (response.status = "SUCCESS")

\* C11 witness: a PhonePe verification whose provider answered COMPLETED has
\* responded, after its notification and archive calls settled.
C11_Witness ==
    /\ response.kind = "verifyPhonePe"
    /\ VerifyAnswered(response)
    /\ response.data.status = "COMPLETED"
    /\ \E id \in Ids : mailCalls[id] >= 1 /\ archiveCalls[id] >= 1

\* the response of a verification in whose handler the provider's answer
\* raised an exception (a property read of null / undefined)
VerifyRaised(r) ==
    /\ r.kind \in {"verifyPhonePe", "verifyCashfree"}
    /\ r.message = "server error: TypeError"

\* C12: a provider status payload that is absent or lacks the expected fields
\* is translated to FAILED on the normal path: no verification responds from
\* its error path because of the payload, and an answer without a state /
\* order_status is reported as FAILED.
C12_MalformedPayloadIsFailed ==
    /\ ~VerifyRaised(response)
    /\ VerifyAnswered(response) /\ response.data.status = Undefined
          => response.status = "FAILED"

\* C13: a PayPal capture call that returns with a status other than COMPLETED
\* does not put the transaction in the success state and makes no
\* notification call.
C13_CaptureSuccessOnlyWhenCompleted ==
    [][\A h \in Suspended :
          /\ capturePayPalCaptureReturns(h)
          /\ pendingPayments'[h.id].paypalCaptureData.status # "COMPLETED"
          => /\ Unified(pendingPayments'[h.id].status) # "SUCCESS"
             /\ mailCalls' = mailCalls]_vars

\* C14: a PhonePe callback whose status is absent or not one of the known
\* values is treated as FAILED: it never moves the stored state of the
\* transaction to the success value.
C14_CallbackWithoutStatusIsNotSuccess ==
    [][\A id \in Ids, status \in CallbackStatuses \ {"COMPLETED", "PENDING", "FAILED"} :
          /\ Known(id)
          /\ phonePeCallbackWith(id, status)
          /\ Unified(pendingPayments[id].status) # "SUCCESS"
          => Unified(pendingPayments'[id].status) # "SUCCESS"]_vars

\* C15: a failure of the notification or of the archive write during dispatch
\* is swallowed: the step that logs it leaves every stored record as it is,
\* a failed notification lets the request go on to its archive write without
\* responding, and a failed archive write is answered with the normal success
\* response.
C15_DispatchFailureIsSwallowed ==
    [][/\ logged' # NoLog => pendingPayments' = pendingPayments
       /\ logged' = MailError
             => /\ response' = NoResponse
                /\ \E g \in BagToSet(inflight') : g.pc = "firestoreSet"
       /\ logged' = ArchiveError
             => response'.http = 200 /\ response'.success]_vars

\* C15 witness: a verification whose archive write failed has answered
\* SUCCESS for a record that is in the success state.
C15_Witness ==
    /\ logged = ArchiveError
    /\ response.kind \in {"verifyPhonePe", "verifyCashfree"}
    /\ response.status = "SUCCESS"
    /\ \E id \in Ids : Known(id) /\ Unified(pendingPayments[id].status) = "SUCCESS"

\* the response of a capture whose token or capture request threw
CaptureProviderError(r) ==
    /\ r.kind = "capturePayPal"
    /\ r.message = "Capture failed: provider error"

\* C16: when the PayPal capture call throws, the stored transaction stays as
\* it was (PENDING after initiation) and nothing is dispatched; a capture of a
\* stored transaction that returns makes exactly one notification call and,
\* once that settled, exactly one archive call, so the retry after a failure
\* dispatches once.
C16_CaptureFailureThenRetry ==
    [][/\ CaptureProviderError(response')
             => /\ pendingPayments' = pendingPayments
                /\ mailCalls' = mailCalls
                /\ archiveCalls' = archiveCalls
       /\ \A h \in Suspended :
             /\ Known(h.id) /\ capturePayPalCaptureReturns(h)
                   => /\ mailCalls' = [mailCalls EXCEPT ![h.id] = @ + 1]
                      /\ archiveCalls' = archiveCalls
             /\ capturePayPalMailSettles(h)
                   => /\ archiveCalls' = [archiveCalls EXCEPT ![h.id] = @ + 1]
                      /\ mailCalls' = mailCalls]_vars

\* C16 witness: the capture of a PayPal transaction that is stored as PENDING
\* and has had nothing dispatched has just failed with a provider error.
C16_Witness ==
    /\ CaptureProviderError(response)
    /\ \E id \in Ids : /\ Known(id)
                       /\ pendingPayments[id].status = "PENDING"
                       /\ pendingPayments[id].phonepeOrderId = Undefined
                       /\ mailCalls[id] = 0
                       /\ archiveCalls[id] = 0

\* C17: the response of a request that triggers dispatch does not wait for
\* the side effects: no handler that has recorded its state transition is
\* suspended, its response still unsent, on the notification or on the
\* archive write.
C17_ResponseDoesNotAwaitSideEffects ==
    \A h \in Suspended : h.pc \notin {"sendMail", "firestoreSet"}

\* the outcome a verification response reports for a unified state
Outcome(unified) ==
    CASE unified = "SUCCESS" -> "SUCCESS"
      [] unified = "FAILED" -> "FAILED"
      [] OTHER -> "PENDING"

\* C18: the outcome in the response of a verification whose provider query
\* was answered equals the unified state of the stored record at the moment
\* the response is sent, also when another signal was applied to the record
\* while the request was in flight.
C18_VerifyReturnsStoredState ==
    [][\A h \in Suspended :
          /\ h.kind \in {"verifyPhonePe", "verifyCashfree"}
          /\ ~h.stale
          /\ inflight' = Without(inflight, h)
          /\ response'.kind = h.kind
          /\ VerifyAnswered(response')
          => response'.status = Outcome(Unified(pendingPayments'[h.id].status))]_vars

\* the handler acts on a provider signal that translates to SUCCESS
SuccessSignal(h) ==
    \/ h.kind = "verifyPhonePe" /\ ~h.data.isNull /\ h.data.status = "COMPLETED"
    \/ h.kind \in {"verifyCashfree", "cashfreeWebhook"}
          /\ ~h.data.isNull /\ h.data.status = "PAID"

\* C19: no PhonePe / Cashfree handler invocation whose signal translates to
\* FAILED or to pending makes a notification or an archive call: every such
\* call is made by a handler that then awaits it, and every handler awaiting
\* one acts on PhonePe state COMPLETED or Cashfree order_status PAID.
C19_NoDispatchWithoutSuccessSignal ==
    [][/\ \A g \in BagToSet(inflight') :
             g.pc \in {"sendMail", "firestoreSet"} => SuccessSignal(g)
       /\ \A id \in Ids :
             /\ mailCalls'[id] # mailCalls[id]
                   => \E g \in BagToSet(inflight') : g.id = id /\ g.pc = "sendMail"
             /\ archiveCalls'[id] # archiveCalls[id]
                   => \E g \in BagToSet(inflight') : g.id = id /\ g.pc = "firestoreSet"]_vars

\* C19 witness: a Cashfree verification answered EXPIRED has responded FAILED
\* for a record with nothing dispatched.
C19_Witness ==
    /\ response.kind = "verifyCashfree"
    /\ VerifyAnswered(response)
    /\ response.data.status = "EXPIRED"
    /\ \E id \in Ids : /\ Known(id)
                       /\ pendingPayments[id].status = "EXPIRED"
                       /\ mailCalls[id] = 0
                       /\ archiveCalls[id] = 0

\* the handlers that await the notification call they made for id
AwaitingMail(bag, id) ==
    BagCardinality([h \in {k \in BagToSet(bag) : k.id = id /\ k.pc = "sendMail"} |-> bag[h]])

\* C20: a dispatch attempts both operations: every notification call is
\* followed, once it has settled, by an archive call for the same
\* transaction, and the step in which a notification failure is logged hands
\* the document to the archive all the same.
C20_DispatchAttemptsBoth ==
    [][/\ \A id \in Ids :
             mailCalls'[id] = archiveCalls'[id] + AwaitingMail(inflight', id)
       /\ logged' = MailError
             => /\ archiveDoc' # NoDoc
                /\ archiveCalls'[archiveDoc'.id] = archiveCalls[archiveDoc'.id] + 1]_vars

\* C20 witness: the notification of a PhonePe verification failed and its
\* archive document has been handed to Firestore.
C20_Witness ==
    /\ logged = MailError
    /\ archiveDoc.paymentMethod = "phonepe"
    /\ archiveCalls[archiveDoc.id] = 1
    /\ mailCalls[archiveDoc.id] = 1

\* C21: a record, once present in the registry under an id, is present under
\* that id in every later state: no step removes a record.
C21_RecordsAreNeverRemoved ==
    [][\A id \in Ids : Known(id) => pendingPayments'[id] # NoObject]_vars

\* C21 witness: a record written by an initiation is still held after a
\* PayPal capture for its id has gone through and responded.
C21_Witness ==
    /\ response.kind = "capturePayPal"
    /\ response.success
    /\ \E id \in Ids : /\ Known(id)
                       /\ pendingPayments[id].createdAt # NoTime
                       /\ pendingPayments[id].paypalCaptureData # NoPayload

\* the step leaves the record of every id other than id as it is
OthersUnchanged(id) ==
    \A other \in Ids \ {id} : pendingPayments'[other] = pendingPayments[other]

\* the steps of a suspended handler that follow a status signal for its id
SignalStepOf(h) ==
    \/ verifyPhonePeStatusReturns(h)
    \/ verifyPhonePeStatusThrows(h)
    \/ verifyPhonePeMailSettles(h)
    \/ verifyPhonePeArchiveSettles(h)
    \/ verifyCashfreeOrderReturns(h)
    \/ verifyCashfreeOrderThrows(h)
    \/ verifyCashfreeMailSettles(h)
    \/ verifyCashfreeArchiveSettles(h)
    \/ cashfreeWebhookMailSettles(h)
    \/ cashfreeWebhookArchiveSettles(h)
    \/ capturePayPalTokenReturns(h)
    \/ capturePayPalCaptureReturns(h)
    \/ capturePayPalThrows(h)
    \/ capturePayPalMailSettles(h)
    \/ capturePayPalArchiveSettles(h)

\* C22: signals are independent across ids: a callback, a webhook delivery,
\* a verification or a capture for one transaction id leaves the stored
\* record of every other id unchanged, whatever else is in flight.
C22_SignalsAreIndependentAcrossIds ==
    [][/\ \A id \in Ids \cup {NoId}, status \in CallbackStatuses :
             phonePeCallbackWith(id, status) => OthersUnchanged(id)
       /\ cashfreeWebhook
             => \E id \in Ids \cup {NoId} :
                   /\ OthersUnchanged(id)
                   /\ \A g \in BagToSet(inflight') \ Suspended : g.id = id
       /\ verifyPhonePePayment \/ verifyCashfreePayment \/ capturePayPalPayment
             => pendingPayments' = pendingPayments
       /\ \A h \in Suspended : SignalStepOf(h) => OthersUnchanged(h.id)]_vars

\* C22 witness: two transactions are stored and a callback has just marked
\* one of them FAILED while the other is still as its initiation left it.
C22_Witness ==
    /\ response.kind = "phonePeCallback"
    /\ \E id \in Ids, other \in Ids :
          /\ id # other
          /\ Known(id) /\ pendingPayments[id].status = "FAILED"
          /\ pendingPayments[id].updatedAt # NoTime
          /\ Known(other) /\ pendingPayments[other].status = "PENDING"
          /\ pendingPayments[other].updatedAt = NoTime

\* the fields of a record that are fixed at creation, and the provider
\* handle its initiation obtained
FixedFields(rec) ==
    <<rec.merchantTransactionId, rec.amount, rec.customerName, rec.customerEmail,
      rec.customerPhone, rec.ecommPlan, rec.hostingPlan, rec.createdAt,
      rec.phonepeOrderId, rec.redirectUrl, rec.cashfreeOrderId, rec.paymentSessionId>>

\* C23: the fields fixed at creation (id, amount, customer name / email /
\* phone, plan labels, createdAt) and the provider handle of a stored record
\* are never changed by a status signal, a verification or a capture.
C23_SignalsKeepFixedFields ==
    [][\A id \in Ids :
          Known(id) /\ (SignalStep \/ \E h \in Suspended : SignalStepOf(h))
              => FixedFields(pendingPayments'[id]) = FixedFields(pendingPayments[id])]_vars

\* C23 witness: a PayPal capture has completed a record that an initiation
\* created, and the record still carries its creation time and its amount.
C23_Witness ==
    \E h \in Suspended :
        /\ h.kind = "capturePayPal"
        /\ h.pc = "sendMail"
        /\ pendingPayments[h.id].status = "COMPLETED"
        /\ pendingPayments[h.id].paypalCaptureData = h.data
        /\ pendingPayments[h.id].createdAt # NoTime
        /\ pendingPayments[h.id].customerName = GoodBody.customerName

\* C24: every change of a stored record's state refreshes its updatedAt: in
\* a step that changes the status of a stored record, updatedAt becomes the
\* time of that step.
C24_StateChangeRefreshesUpdatedAt ==
    [][\A id \in Ids :
          Known(id) /\ pendingPayments'[id].status # pendingPayments[id].status
              => pendingPayments'[id].updatedAt = now]_vars

\* C25: transaction ids are unique: an initiation never writes its new
\* record under an id the registry already holds, so a step that writes the
\* record of an initiation leaves every record already stored as it is.
C25_InitiationNeverOverwrites ==
    [][\A id \in Ids :
          Known(id) /\ InitiationWrites
              => pendingPayments'[id] = pendingPayments[id]]_vars

\* C26: a PhonePe initiation whose phone number is not exactly 10 digits, or
\* that lacks amount, phone, email or name, is answered with an error, writes
\* no record and calls no provider: a PhonePe initiation step either answers
\* 400 leaving registry and in-flight calls as they are, or writes a record
\* with all four fields present and a phone number of exactly 10 digits.
C26_InvalidPhonePeRequestRejected ==
    [][initiatePhonePePayment
          => \/ /\ response'.kind = "initiatePhonePe"
                /\ response'.http = 400
                /\ ~response'.success
                /\ pendingPayments' = pendingPayments
                /\ inflight' = inflight
             \/ /\ response' = NoResponse
                /\ \E id \in Ids :
                      LET rec == pendingPayments'[id]
                      IN  /\ Handler("initiatePhonePe", "pay", id) \in BagToSet(inflight')
                          /\ rec.amount # 0
                          /\ rec.customerEmail # ""
                          /\ rec.customerName # ""
                          /\ Len(rec.customerPhone) = 10
                          /\ \A i \in 1..10 : rec.customerPhone[i] \in Digits
                          /\ OthersUnchanged(id)]_vars

\* C26 witness: a PhonePe initiation has been rejected for its phone number
\* while the registry holds nothing and no call is in flight.
C26_Witness ==
    /\ response.kind = "initiatePhonePe"
    /\ response.message = "Phone number must be exactly 10 digits"
    /\ \A id \in Ids : ~Known(id)
    /\ inflight = EmptyBag

\* C27: a PhonePe or Cashfree verification for an id the registry does not
\* hold answers 404 'Transaction not found' without a provider query, without
\* changing the registry and without dispatch: the arrival step of a
\* verification changes no record and makes no side-effect call, and it
\* starts a provider query only for an id the registry holds.
C27_UnknownIdVerificationRejected ==
    [][verifyPhonePePayment \/ verifyCashfreePayment
          => /\ pendingPayments' = pendingPayments
             /\ mailCalls' = mailCalls
             /\ archiveCalls' = archiveCalls
             /\ \A g \in BagToSet(inflight') :
                   CopiesIn(g, inflight') > CopiesIn(g, inflight) => Known(g.id)
             /\ response'.message = "Transaction not found"
                   => /\ response'.http = 404
                      /\ inflight' = inflight
             /\ response' = NoResponse
                   => \E g \in BagToSet(inflight') :
                         /\ CopiesIn(g, inflight') > CopiesIn(g, inflight)
                         /\ g.pc \in {"getOrderStatus", "PGFetchOrder"}]_vars

\* C27 witness: a Cashfree verification has been answered 'Transaction not
\* found' while the registry holds a record under another id.
C27_Witness ==
    /\ response.kind = "verifyCashfree"
    /\ response.http = 404
    /\ response.message = "Transaction not found"
    /\ \E id \in Ids, other \in Ids : Known(id) /\ ~Known(other)

\* C28: every handler invocation ends with exactly one response on every
\* path: the invocations that end in a step (those that have arrived and are
\* no longer suspended) are none or one, a response is sent in exactly the
\* steps in which one ends, and, the awaited calls all returning or throwing,
\* no invocation stays suspended for ever.
C28_EveryInvocationRespondsOnce ==
    /\ [][LET started == arrived' - arrived
              held == BagCardinality(inflight') - BagCardinality(inflight)
              ended == started - held
          IN  /\ ended \in {0, 1}
              /\ (response' # NoResponse) <=> (ended = 1)]_vars
    /\ []<>(inflight = EmptyBag)

\* C28 witness: a verification whose provider answer raised an exception in
\* the handler has been answered, and no invocation is left suspended.
C28_Witness ==
    /\ VerifyRaised(response)
    /\ response.http = 500
    /\ inflight = EmptyBag

\* the paymentMethod each dispatching handler writes into its archive record
MethodOf(kind) ==
    CASE kind = "verifyPhonePe" -> "phonepe"
      [] kind \in {"verifyCashfree", "cashfreeWebhook"} -> "cashfree"
      [] kind = "capturePayPal" -> "paypal"
      [] OTHER -> "unknown"

\* C29: every record handed to the archive carries status COMPLETED and the
\* payment method of the handler that dispatched it, whatever status the
\* stored record has at that moment.
C29_ArchivedRecordIsCompleted ==
    archiveDoc # NoDoc
        => /\ archiveDoc.status = "COMPLETED"
           /\ \E g \in Suspended : /\ g.pc = "firestoreSet"
                                   /\ g.id = archiveDoc.id
                                   /\ archiveDoc.paymentMethod = MethodOf(g.kind)

\* C29 witness: a record is handed to the archive while the stored record of
\* its transaction has been marked FAILED in the meantime.
C29_Witness ==
    /\ archiveDoc # NoDoc
    /\ Known(archiveDoc.id)
    /\ pendingPayments[archiveDoc.id].status = "FAILED"

\* C30: whenever a notification or archive call is made for a transaction
\* id, the store holds a record for that id at that moment.
C30_DispatchOnlyForStoredIds ==
    [][\A id \in Ids :
          (mailCalls'[id] > mailCalls[id] \/ archiveCalls'[id] > archiveCalls[id])
              => /\ pendingPayments'[id] # NoObject
                 /\ pendingPayments'[id].merchantTransactionId = id]_vars

\* C30 witness: both calls have been made for a stored transaction, by a
\* verification and by a webhook.
C30_Witness ==
    \E id \in Ids :
        /\ Known(id)
        /\ mailCalls[id] > 0
        /\ archiveCalls[id] > 0
        /\ \E g \in Suspended : g.id = id /\ g.pc = "firestoreSet"

\* the PhonePe handlers, which both controllers export
NextPhonePe ==
    \/ initiatePhonePePayment
    \/ \E h \in Suspended : initiatePhonePePayReturns(h)
    \/ \E h \in Suspended : initiatePhonePePayThrows(h)
    \/ phonePeCallback
    \/ verifyPhonePePayment
    \/ \E h \in Suspended : verifyPhonePeStatusReturns(h)
    \/ \E h \in Suspended : verifyPhonePeStatusThrows(h)
    \/ \E h \in Suspended : verifyPhonePeMailSettles(h)
    \/ \E h \in Suspended : verifyPhonePeArchiveSettles(h)

\* the handlers of controllers/paymentController.js: PhonePe and Cashfree
NextCashfree ==
    \/ NextPhonePe
    \/ initiateCashfreePayment
    \/ \E h \in Suspended : initiateCashfreeOrderReturns(h)
    \/ \E h \in Suspended : initiateCashfreeOrderThrows(h)
    \/ verifyCashfreePayment
    \/ \E h \in Suspended : verifyCashfreeOrderReturns(h)
    \/ \E h \in Suspended : verifyCashfreeOrderThrows(h)
    \/ \E h \in Suspended : verifyCashfreeMailSettles(h)
    \/ \E h \in Suspended : verifyCashfreeArchiveSettles(h)
    \/ cashfreeWebhook
    \/ \E h \in Suspended : cashfreeWebhookMailSettles(h)
    \/ \E h \in Suspended : cashfreeWebhookArchiveSettles(h)

\* the PayPal handlers of the second controller (part_001), which shares
\* global.pendingPayments and the PhonePe handlers with the first
NextPayPal ==
    \/ initiatePayPalPayment
    \/ \E h \in Suspended : initiatePayPalTokenReturns(h)
    \/ \E h \in Suspended : initiatePayPalOrderReturns(h)
    \/ \E h \in Suspended : initiatePayPalThrows(h)
    \/ capturePayPalPayment
    \/ \E h \in Suspended : capturePayPalTokenReturns(h)
    \/ \E h \in Suspended : capturePayPalCaptureReturns(h)
    \/ \E h \in Suspended : capturePayPalThrows(h)
    \/ \E h \in Suspended : capturePayPalMailSettles(h)
    \/ \E h \in Suspended : capturePayPalArchiveSettles(h)

Next == NextCashfree \/ NextPayPal

\* both controllers mounted over the one registry
Spec == Init /\ [][Next]_vars

\* controllers/paymentController.js alone
SpecCashfree == Init /\ [][NextCashfree]_vars

\* the second controller (part_001) alone: PhonePe and PayPal
SpecPayPal == Init /\ [][NextPhonePe \/ NextPayPal]_vars

\* Every awaited call (provider request, sendMail, Firestore set) returns or
\* throws in the end: a suspended handler is resumed.  Next without the
\* arrivals of new requests is the resumption of some suspended handler.
Resume ==
    /\ Next
    /\ arrived' = arrived

FairSpec == Spec /\ WF_vars(Resume)
====
